---- MODULE Spec2Model ----
(***************************************************************************)
(* Agentic-Kernel: the worker fleet of hooks/useAgentSystem.ts (the        *)
(* current revision, lines 1-312) with services/geminiService.ts.          *)
(*                                                                         *)
(* The state is the hook's React state and refs.  One action is one        *)
(* handler run up to its next await (JavaScript runs a handler to its next *)
(* suspension point without interleaving); what runs after an await is the *)
(* action of the call's return.  The scheduler tick is written as two      *)
(* consecutive steps, TickSelect and TickThink, because it queues two      *)
(* updaters on the same worker (IDLE -> WORKING, then -> THINKING); no     *)
(* other handler runs between the two.  A handler reads the state of the   *)
(* latest render.                                                          *)
(*                                                                         *)
(* Spec, FairSpec: the code under src/, with responses of plain text.      *)
(* SpecArtifacts: the same with responses that carry file blocks.          *)
(* SpecLog: the same with the global log followed entry by entry.          *)
(* SpecReload: the same with the snapshot in local storage and page        *)
(* reloads.  SpecMemory: the same with the growth of memoryUsage.          *)
(* SpecRecovery, FairSpecRecovery: the code with the Recovery Manager      *)
(* (status AWAITING_MASTER_REVIEW, recoveryAttempts, lastErrorMessage).    *)
(* That revision of the hook is not among the sources (only                *)
(* components/AgentCard.tsx refers to the status), so its actions are      *)
(* written from sections 3, 4.1, 4.3 and 4.6 of the specification.         *)
(*                                                                         *)
(* Abstractions.  A worker's role and its own log, and the text of tasks   *)
(* and log messages are left out or reduced to tags.  memoryUsage grows by *)
(* a random amount per turn in SpecMemory and by 0 elsewhere.  A response  *)
(* text is a sequence of pieces (plain text, the completion token, file    *)
(* blocks).  Every handler hands its log entries to `emitted`; the ring    *)
(* globalLogs itself, which no handler reads but to build the prompt of    *)
(* the stepper, is followed in SpecLog only (Logged) and stays as it is in *)
(* the other specifications (Quiet).  The catch block of runScheduler      *)
(* (lines 252-255) has no action: stepAgent turns every failure of the     *)
(* stepper into a response text, and nothing else in the try block throws  *)
(* on the states of these specifications.  The persisted snapshot is       *)
(* followed in SpecReload only (Persist), with the page reload that reads  *)
(* it; the other specifications leave it as it is.  The broadcast slot is  *)
(* not part of the state here.                                             *)
(***************************************************************************)
EXTENDS Integers, Sequences, FiniteSets, TLC

VARIABLES
    agents,          \* useState<WorkerAgent[]>: the fleet, in spawn order
    agentSessions,   \* useRef<Map<string, Chat>>: ids that have a session
    processingRef,   \* useRef<boolean>: the turn latch
    turns,           \* runScheduler invocations between latch and finally
    timers,          \* pending 800 ms cool-down timeouts
    isOrchestrating, \* useState<boolean>
    planning,        \* outstanding orchestratePlan calls of handleCommand
    remediating,     \* ids with an outstanding remediation planner call
    stepperDown,     \* environment: names whose stepper fails permanently
    emitted,         \* the entries the last handler passed to addLog
    artifacts,       \* useState<AgentArtifact[]>: the registry, in push order
    globalLogs,      \* useState<AgentLog[]>: the retained entries
    clock,           \* the number of log entries created so far (Date.now())
    storage,         \* localStorage[STORAGE_KEY]: the persisted snapshot
    broadcastEvent,  \* useState<BroadcastEvent | null>: the broadcast slot
    expiries         \* pending 3000 ms timeouts, each under the timestamp
                     \* of the broadcast that armed it, in firing order

vars == <<agents, agentSessions, processingRef, turns, timers,
          isOrchestrating, planning, remediating, stepperDown, emitted,
          artifacts, globalLogs, clock, storage, broadcastEvent, expiries>>

----------------------------------------------------------------------------
(* Bounds of the model *)

\* worker ids are drawn from 1..MaxIds (Math.random tokens in the code)
MaxIds == 3
\* a plan returned by the planner has at most MaxPlan task specs
MaxPlan == 2
\* the global log is followed for MaxAppends entries, from an empty log and
\* from a restored one that is about to fill the ring
MaxAppends == 6
\* a response text has at most MaxPieces pieces
MaxPieces == 2
\* memoryUsage is followed up to MaxMemory
MaxMemory == 22

(* Program constants *)

ProgressStep == 15
ProgressCap == 99
ProgressDone == 100
MaxRecoveryAttempts == 3
LogCap == 100
MemoryBaseline == 20
MaxGrowth == 4

----------------------------------------------------------------------------
(* types.ts *)

IDLE == "IDLE"
THINKING == "THINKING"
WORKING == "WORKING"
COMPLETED == "COMPLETED"
ERROR == "ERROR"
KILLED == "KILLED"
AWAITING_MASTER_REVIEW == "AWAITING_MASTER_REVIEW"

AgentStatus == {IDLE, THINKING, WORKING, COMPLETED, ERROR, KILLED,
                AWAITING_MASTER_REVIEW}

Terminal == {COMPLETED, ERROR, KILLED}

Ids == 1..MaxIds

\* codenames the planner may give; Echo-9 is the fallback task's name
FallbackName == "Echo-9"
Names == {"Nexus", "Cipher", FallbackName}

KillMarker == "Terminated by Master Kill-Switch"
ManualMarker == "Manual intervention required"
PlainTask == "task"

Min(a, b) == IF a < b THEN a ELSE b

----------------------------------------------------------------------------
(* Entity store helpers *)

FleetIds(fleet) == {fleet[i].id : i \in DOMAIN fleet}

\* ids some part of the state still refers to
UsedIds(fleet, sessions) ==
    FleetIds(fleet) \cup sessions \cup {t.id : t \in turns} \cup remediating

\* Math.random().toString(36): a token no live object carries
FreshId(fleet, sessions) ==
    CHOOSE id \in Ids \ UsedIds(fleet, sessions) :
        \A other \in Ids \ UsedIds(fleet, sessions) : id <= other

LogEntry(type, tag) == [type |-> type, tag |-> tag]

----------------------------------------------------------------------------
(* services/geminiService.ts *)

\* a plan as handleCommand reads it: plan.tasks, and whether it is defined
PlanOf(tasks) == [defined |-> TRUE, tasks |-> tasks]
NoTasksPlan == [defined |-> FALSE, tasks |-> <<>>]

FallbackPlan == PlanOf(<<FallbackName>>)

\* what the planner service does with one request
PlanNames == Names \ {FallbackName}
Plans == UNION {[1..n -> PlanNames] : n \in 0..MaxPlan}
PlannerOutcomes ==
    {[kind |-> "plan", tasks |-> p] : p \in Plans}
        \cup {[kind |-> "error", tasks |-> <<>>],
              [kind |-> "notasks", tasks |-> <<>>]}

\* orchestratePlan: a request that throws (no text, invalid JSON, network)
\* yields the fallback plan; a JSON object is returned as parsed, with or
\* without its "tasks" property
orchestratePlan(outcome) ==
    CASE outcome.kind = "error" -> FallbackPlan
      [] outcome.kind = "notasks" -> NoTasksPlan
      [] OTHER -> PlanOf(outcome.tasks)

\* A response text is a sequence of pieces: runs of plain text, and file
\* blocks <file path="...">...</file> with what stands between the tags.
Text(s) == [kind |-> "text", path |-> "", body |-> s]
File(path, body) == [kind |-> "file", path |-> path, body |-> body]

CompletionToken == "TASK_COMPLETE"
BroadcastMarker == "BROADCAST:"
GeneratedFile == "[GENERATED FILE]"

\* what chat.sendMessage does with one message: it throws, or it answers
Answer(text) == [throws |-> FALSE, text |-> text]
Throw == [throws |-> TRUE, text |-> <<>>]
Reply == Answer(<<Text("words")>>)
Complete == Answer(<<Text("words"), Text(CompletionToken)>>)

StepperOutcomes == {Reply, Complete, Throw}

\* stepAgent: the response text; an empty answer becomes "Thinking...", a
\* failed sendMessage is caught and becomes "ERROR: Connection interrupted."
stepAgent(outcome) ==
    IF outcome.throws THEN <<Text("ERROR: Connection interrupted.")>>
    ELSE IF outcome.text = <<>> THEN <<Text("Thinking...")>>
    ELSE outcome.text

----------------------------------------------------------------------------
(* hooks/useAgentSystem.ts *)

\* localStorage.getItem(STORAGE_KEY) when nothing is stored
NoSnapshot == [present |-> FALSE, agents |-> <<>>, artifacts |-> <<>>]

\* lines 51-56: the serialised state (its log is left out with the log)
Snapshot(fleet, registry) ==
    [present |-> TRUE, agents |-> fleet, artifacts |-> registry]

\* lines 49-57, the save-on-change effect: it runs after a render with new
\* agents, globalLogs or artifacts, and writes the state of that render
SaveOnChange(stored, changed, fleet, registry) ==
    IF changed THEN Snapshot(fleet, registry) ELSE stored

\* lines 118 and 281: localStorage.removeItem(STORAGE_KEY)
RemoveItem(stored, removes) == IF removes THEN NoSnapshot ELSE stored

\* Retain without slice
RetainAll(next) == next

\* line 73: next.slice(-100)
Retain(next) ==
    IF Len(next) <= LogCap THEN next
    ELSE SubSeq(next, Len(next) - LogCap + 1, Len(next))

\* addLog, lines 62-75: the entry is created (stamp stands for its id and
\* timestamp) and appended, and the ring is cut to its last 100 entries
addLog(log, entry, stamp) ==
    Retain(Append(log, [stamp |-> stamp, type |-> entry.type,
                        tag |-> entry.tag]))

\* the addLog calls of one handler, in order
RECURSIVE AddLogs(_, _, _)
AddLogs(log, entries, now) ==
    IF entries = <<>> THEN log
    ELSE AddLogs(addLog(log, Head(entries), now + 1), Tail(entries), now + 1)

\* task.dependencies: what the planner lists in the task spec of a name
TaskDependencies(name) == IF name = "Cipher" THEN {"Nexus"} ELSE {}

NewAgent(id, name) ==
    [id |-> id, name |-> name, status |-> IDLE, progress |-> 0,
     currentTask |-> PlainTask, memoryUsage |-> MemoryBaseline,
     recoveryAttempts |-> 0, lastErrorMessage |-> "",
     dependencies |-> TaskDependencies(name)]

\* spawnAgent: a new session under a new id and a new IDLE worker appended
\* to the fleet, whatever names the fleet already holds
spawnAgent(st, name) ==
    LET id == FreshId(st.fleet, st.sessions)
    IN  [fleet |-> Append(st.fleet, NewAgent(id, name)),
         sessions |-> st.sessions \cup {id}]

\* SpawnAll that stops after the first task spec
SpawnFirst(st, tasks) ==
    IF tasks = <<>> THEN st ELSE spawnAgent(st, Head(tasks))

\* plan.tasks.forEach(task => spawnAgent(...))
RECURSIVE SpawnAll(_, _)
SpawnAll(st, tasks) ==
    IF tasks = <<>> THEN st
    ELSE SpawnAll(spawnAgent(st, Head(tasks)), Tail(tasks))

SpawnLogs(tasks) == [i \in DOMAIN tasks |-> LogEntry("success", "initialized")]

\* Killed without the reset of progress
KilledKeepsProgress(a) ==
    [a EXCEPT !.status = KILLED, !.currentTask = KillMarker]

\* lines 111-116: what kill-all makes of a worker
Killed(a) ==
    [a EXCEPT !.status = KILLED, !.currentTask = KillMarker, !.progress = 0]

\* killAllAgents
KillAll ==
    /\ \A t \in turns : t.pc # "selected"
    /\ agents' = [i \in DOMAIN agents |-> Killed(agents[i])]
    /\ agentSessions' = {}
    /\ emitted' = <<LogEntry("error", "kill-switch")>>
    /\ UNCHANGED <<processingRef, turns, timers, isOrchestrating, planning,
                   remediating, stepperDown, artifacts>>

\* LatchFree without the test of the latch
LatchIgnored == TRUE

\* runScheduler, line 150: if (processingRef.current) return
LatchFree == processingRef = FALSE

\* lines 153-155: the first WORKING worker, else the first IDLE one
HasStatus(s) == {i \in DOMAIN agents : agents[i].status = s}
First(S) == CHOOSE i \in S : \A j \in S : i <= j
\* TargetIndex with the two finds in the other order
TargetIdleFirst ==
    IF HasStatus(IDLE) # {} THEN First(HasStatus(IDLE))
    ELSE IF HasStatus(WORKING) # {} THEN First(HasStatus(WORKING))
    ELSE 0

TargetIndex ==
    IF HasStatus(WORKING) # {} THEN First(HasStatus(WORKING))
    ELSE IF HasStatus(IDLE) # {} THEN First(HasStatus(IDLE))
    ELSE 0

SetStatus(s, a) == [a EXCEPT !.status = s]

\* prev.map(a => a.id === id ? { ...a, status: s } : a)
SetStatusById(fleet, id, s) ==
    [i \in DOMAIN fleet |->
        IF fleet[i].id = id THEN SetStatus(s, fleet[i]) ELSE fleet[i]]

\* runScheduler, lines 150-165: take the latch, start an IDLE target
TickSelect ==
    /\ LatchFree
    /\ \A t \in turns : t.pc # "selected"
    /\ TargetIndex # 0
    /\ LET target == agents[TargetIndex]
       IN  /\ processingRef' = TRUE
           /\ agents' = IF target.status = IDLE
                        THEN SetStatusById(agents, target.id, WORKING)
                        ELSE agents
           /\ turns' = turns \cup
                  {[id |-> target.id, name |-> target.name,
                    progress |-> target.progress, pc |-> "selected"]}
    /\ emitted' = <<>>
    /\ UNCHANGED <<agentSessions, timers, isOrchestrating, planning,
                   remediating, stepperDown, artifacts>>

\* TickThink as the earlier revision of the hook has it (lines 413-419 and
\* 471-476): a worker without a session handle is set to ERROR and the
\* latch is released at once, and finally arms the timeout all the same
TickThinkEarlier ==
    \E t \in turns :
        /\ t.pc = "selected"
        /\ IF t.id \in agentSessions
           THEN /\ agents' = SetStatusById(agents, t.id, THINKING)
                /\ turns' = (turns \ {t}) \cup {[t EXCEPT !.pc = "awaiting"]}
                /\ UNCHANGED <<processingRef, timers>>
           ELSE /\ agents' = SetStatusById(agents, t.id, ERROR)
                /\ turns' = turns \ {t}
                /\ processingRef' = FALSE
                /\ timers' = timers + 1
        /\ emitted' = <<>>
        /\ UNCHANGED <<agentSessions, isOrchestrating, planning,
                       remediating, stepperDown, artifacts>>

\* TickThink without lines 169-174: a missing session is not re-created
TickThinkUnhydrated ==
    \E t \in turns :
        /\ t.pc = "selected"
        /\ agents' = SetStatusById(agents, t.id, THINKING)
        /\ turns' = (turns \ {t}) \cup {[t EXCEPT !.pc = "awaiting"]}
        /\ emitted' = <<>>
        /\ UNCHANGED <<agentSessions, processingRef, timers, isOrchestrating,
                       planning, remediating, stepperDown, artifacts>>

\* runScheduler, lines 167-192: hydrate the session, mark THINKING, call
\* the stepper
TickThink ==
    \E t \in turns :
        /\ t.pc = "selected"
        /\ agentSessions' = agentSessions \cup {t.id}
        /\ agents' = SetStatusById(agents, t.id, THINKING)
        /\ turns' = (turns \ {t}) \cup {[t EXCEPT !.pc = "awaiting"]}
        /\ emitted' = <<>>
        /\ UNCHANGED <<processingRef, timers, isOrchestrating, planning,
                       remediating, stepperDown, artifacts>>

\* WriteBack without Math.min(99, ...)
WriteBackUncapped(isComplete, a) ==
    [a EXCEPT !.status = IF isComplete THEN COMPLETED ELSE WORKING,
              !.progress = IF isComplete THEN ProgressDone
                           ELSE a.progress + ProgressStep]

\* lines 235-246: the write-back of a turn
WriteBack(isComplete, a) ==
    [a EXCEPT !.status = IF isComplete THEN COMPLETED ELSE WORKING,
              !.progress = IF isComplete THEN ProgressDone
                           ELSE Min(ProgressCap, a.progress + ProgressStep)]

\* line 242: memoryUsage + Math.floor(Math.random() * 5)
Growths == 0..MaxGrowth
Grow(growth, a) == [a EXCEPT !.memoryUsage = a.memoryUsage + growth]

\* WriteBackById without the test of the id
WriteBackEvery(fleet, id, isComplete, growth) ==
    [i \in DOMAIN fleet |-> Grow(growth, WriteBack(isComplete, fleet[i]))]

\* prev.map(a => a.id === targetAgent.id ? { ... } : a)
WriteBackById(fleet, id, isComplete, growth) ==
    [i \in DOMAIN fleet |->
        IF fleet[i].id = id
        THEN Grow(growth, WriteBack(isComplete, fleet[i]))
        ELSE fleet[i]]

\* String.prototype.trim on the strings the model uses
Trim(body) ==
    CASE body = " v2 " -> "v2"
      [] body = "  " -> ""
      [] OTHER -> body

IsFile(piece) == piece.kind = "file"

Artifact(piece, agentName) ==
    [path |-> piece.path, content |-> Trim(piece.body),
     createdBy |-> agentName]

\* parseArtifacts: one artifact per file block, in the order of the text
parseArtifacts(text, agentName) ==
    LET blocks == SelectSeq(text, IsFile)
    IN  [i \in DOMAIN blocks |-> Artifact(blocks[i], agentName)]

PathIndexes(registry, path) ==
    {i \in DOMAIN registry : registry[i].path = path}

\* UpsertOne without findIndex: every artifact is pushed
PushOne(updated, newArt) == Append(updated, newArt)

\* UpsertOne with the first write of a path kept
KeepOne(updated, newArt) ==
    IF PathIndexes(updated, newArt.path) # {} THEN updated
    ELSE Append(updated, newArt)

\* lines 201-203: replace the entry of the same path, else push
UpsertOne(updated, newArt) ==
    IF PathIndexes(updated, newArt.path) # {}
    THEN [updated EXCEPT ![First(PathIndexes(updated, newArt.path))] = newArt]
    ELSE Append(updated, newArt)

\* lines 198-206: newArtifacts.forEach over a copy of the registry
RECURSIVE UpsertAllArtifacts(_, _)
UpsertAllArtifacts(updated, newArtifacts) ==
    IF newArtifacts = <<>> THEN updated
    ELSE UpsertAllArtifacts(UpsertOne(updated, Head(newArtifacts)),
                            Tail(newArtifacts))

\* line 211: every file block becomes "[GENERATED FILE]"
StripFiles(text) ==
    [i \in DOMAIN text |->
        IF IsFile(text[i]) THEN Text(GeneratedFile) ELSE text[i]]

\* String.prototype.includes on a text without file blocks
Includes(text, word) == \E i \in DOMAIN text : text[i] = Text(word)

\* line 212: cleanResponse.includes("TASK_COMPLETE")
IsComplete(text) == Includes(StripFiles(text), CompletionToken)

\* line 213: replace("TASK_COMPLETE", "") removes the first occurrence
RemoveFirst(text, word) ==
    IF ~Includes(text, word) THEN text
    ELSE LET k == First({i \in DOMAIN text : text[i] = Text(word)})
         IN  SubSeq(text, 1, k - 1) \o SubSeq(text, k + 1, Len(text))

CleanResponse(text) == RemoveFirst(StripFiles(text), CompletionToken)

\* line 214: cleanResponse.startsWith("BROADCAST:")
IsBroadcast(text) ==
    CleanResponse(text) # <<>>
        /\ Head(CleanResponse(text)) = Text(BroadcastMarker)

\* line 228: `Generated ${newArtifacts.length} artifact(s): ...`
GeneratedTag(n) ==
    CASE n = 1 -> "Generated 1 artifact(s)"
      [] n = 2 -> "Generated 2 artifact(s)"
      [] OTHER -> "Generated 3 or more artifact(s)"

\* TurnLogs with one entry for the response: artifact, else info, else
\* thought
TurnLogsOne(text) ==
    <<LogEntry(IF SelectSeq(text, IsFile) # <<>> THEN "artifact"
               ELSE IF IsBroadcast(text) THEN "info" ELSE "thought",
               "response")>>
        \o (IF IsComplete(text)
            THEN <<LogEntry("success", "completion")>> ELSE <<>>)

\* lines 227-233 and 248-250: what a turn logs
TurnLogs(text) ==
    (IF SelectSeq(text, IsFile) # <<>>
     THEN <<LogEntry("artifact",
                     GeneratedTag(Len(SelectSeq(text, IsFile))))>>
     ELSE <<>>)
        \o (IF CleanResponse(text) # <<>>
            THEN <<LogEntry(IF IsBroadcast(text) THEN "info" ELSE "thought",
                            Head(CleanResponse(text)).body)>>
            ELSE <<>>)
        \o (IF IsComplete(text)
            THEN <<LogEntry("success", "completion")>> ELSE <<>>)

\* Finally without the cool-down: the latch is released at once
FinallyAtOnce ==
    /\ processingRef' = FALSE
    /\ UNCHANGED timers

\* Finally without the timeout: the latch is never released
FinallyNothing == UNCHANGED <<processingRef, timers>>

\* lines 256-260: finally arms the 800 ms timeout that releases the latch
Finally ==
    /\ timers' = timers + 1
    /\ UNCHANGED processingRef

\* runScheduler, lines 192-260: the stepper call returns; analysis,
\* artifact upsert, write-back, and the finally block.  growth is what
\* Math.floor(Math.random() * 5) gives in the write-back.
StepReturnWith(t, outcome, growth) ==
    /\ t \in turns
    /\ t.pc = "awaiting"
    /\ \A u \in turns : u.pc # "selected"
    /\ t.name \in stepperDown => outcome.throws
    /\ LET responseText == stepAgent(outcome)
       IN  /\ artifacts' = UpsertAllArtifacts(
                               artifacts, parseArtifacts(responseText, t.name))
           /\ agents' = WriteBackById(agents, t.id, IsComplete(responseText),
                                      growth)
           /\ emitted' = TurnLogs(responseText)
    /\ turns' = turns \ {t}
    /\ Finally
    /\ UNCHANGED <<agentSessions, isOrchestrating, planning, remediating,
                   stepperDown>>

\* the same when Math.random() is below 0.2: memoryUsage stays
StepReturn(t, outcome) == StepReturnWith(t, outcome, 0)

\* lines 257-259: the cool-down timeout releases the latch
CooldownExpire ==
    /\ timers > 0
    /\ \A t \in turns : t.pc # "selected"
    /\ timers' = timers - 1
    /\ processingRef' = FALSE
    /\ emitted' = <<>>
    /\ UNCHANGED <<agents, agentSessions, turns, isOrchestrating, planning,
                   remediating, stepperDown, artifacts>>

\* InputEnabled without the disabled attribute
InputAlwaysEnabled == TRUE

\* App.tsx, line 201: the command input is disabled while orchestrating
InputEnabled == ~isOrchestrating

\* handleCommand, lines 270-287, for a directive that is not blank: reset a
\* non-empty fleet, raise the flag, call the planner
Directive ==
    /\ InputEnabled
    /\ \A t \in turns : t.pc # "selected"
    /\ IF Len(agents) > 0
       THEN agents' = <<>> /\ artifacts' = <<>> /\ agentSessions' = {}
       ELSE UNCHANGED <<agents, artifacts, agentSessions>>
    /\ isOrchestrating' = TRUE
    /\ planning' = planning + 1
    /\ emitted' = <<LogEntry("info", "directive")>>
    /\ UNCHANGED <<processingRef, turns, timers, remediating, stepperDown>>

\* handleCommand, lines 287-295: the planner call returns.  plan.tasks.length
\* throws when the plan has no tasks property, and the handler ends there.
PlanReturn(outcome) ==
    /\ planning > 0
    /\ \A t \in turns : t.pc # "selected"
    /\ planning' = planning - 1
    /\ LET plan == orchestratePlan(outcome)
       IN  IF ~plan.defined
           THEN /\ emitted' = <<>>
                /\ UNCHANGED <<agents, agentSessions, isOrchestrating>>
           ELSE /\ Cardinality(Ids \ UsedIds(agents, agentSessions))
                       >= Len(plan.tasks)
                /\ LET st == SpawnAll([fleet |-> agents,
                                       sessions |-> agentSessions],
                                      plan.tasks)
                   IN  /\ agents' = st.fleet
                       /\ agentSessions' = st.sessions
                /\ emitted' = <<LogEntry("info", "strategy")>>
                                  \o SpawnLogs(plan.tasks)
                /\ isOrchestrating' = FALSE
    /\ UNCHANGED <<processingRef, turns, timers, remediating, stepperDown,
                   artifacts>>

----------------------------------------------------------------------------
(* The specification of the code under src/ *)

\* which workers' steppers are down for good: none, or one of the planner's
DownChoices == {{}} \cup {{n} : n \in PlanNames}

\* lines 9-22: the state and the refs as the hook creates them, and, lines
\* 49-57, the snapshot the save effect writes on mount
\* line 13: useState<BroadcastEvent | null>(null)
NoEvent == [sourceId |-> 0, timestamp |-> 0]

Created ==
    /\ agents = <<>>
    /\ agentSessions = {}
    /\ processingRef = FALSE
    /\ turns = {}
    /\ timers = 0
    /\ isOrchestrating = FALSE
    /\ planning = 0
    /\ remediating = {}
    /\ emitted = <<>>
    /\ artifacts = <<>>
    /\ storage = Snapshot(agents, artifacts)
    /\ broadcastEvent = NoEvent
    /\ expiries = <<>>

\* lines 27-47 with nothing in local storage
Init ==
    /\ Created
    /\ stepperDown \in DownChoices
    /\ globalLogs = <<>>
    /\ clock = 0

StepReturns == \E t \in turns : \E o \in StepperOutcomes : StepReturn(t, o)
PlanReturns == \E o \in PlannerOutcomes : PlanReturn(o)

\* The broadcast slot is set by a turn with a broadcast and read only by
\* the network graph.  Still leaves it out of a step.
Still == UNCHANGED <<broadcastEvent, expiries>>

\* The global log is written by every handler and read only to build the
\* prompt of the stepper, whose answer is an input here; the snapshot is
\* written after every handler and read only by a page reload.  Quiet
\* leaves both out of a step; Logged is the setGlobalLogs updaters of the
\* step.
Quiet == UNCHANGED <<globalLogs, clock, storage>> /\ Still

LogCeiling == IF clock <= MaxAppends THEN MaxAppends ELSE LogCap + MaxAppends

Logged ==
    /\ clock + Len(emitted') <= LogCeiling
    /\ globalLogs' = AddLogs(globalLogs, emitted', clock)
    /\ clock' = clock + Len(emitted')
    /\ UNCHANGED storage
    /\ Still

Next ==
    \/ Directive /\ Quiet
    \/ PlanReturns /\ Quiet
    \/ KillAll /\ Quiet
    \/ TickSelect /\ Quiet
    \/ TickThink /\ Quiet
    \/ StepReturns /\ Quiet
    \/ CooldownExpire /\ Quiet

Spec == Init /\ [][Next]_vars

----------------------------------------------------------------------------
(* The Recovery Manager, from sections 4.1, 4.3 and 4.6 of the             *)
(* specification (its source is not among the files of src/)               *)

AwaitRecovery(a) ==
    IF a.status = THINKING
    THEN [a EXCEPT !.status = AWAITING_MASTER_REVIEW,
                   !.lastErrorMessage = "stepper failure"]
    ELSE a

\* 4.3 (10), 4.1 Thinking -> AwaitingRecovery: the stepper call of a turn
\* fails; the worker awaits recovery, an error entry is logged, and the
\* turn concludes into its cool-down
TurnFailure ==
    \E t \in turns :
        /\ t.pc = "awaiting"
        /\ \A u \in turns : u.pc # "selected"
        /\ agents' = [i \in DOMAIN agents |->
                         IF agents[i].id = t.id
                         THEN AwaitRecovery(agents[i]) ELSE agents[i]]
        /\ emitted' = <<LogEntry("error", "crashed")>>
        /\ turns' = turns \ {t}
        /\ Finally
        /\ UNCHANGED <<agentSessions, isOrchestrating, planning,
                       remediating, stepperDown, artifacts>>

\* NeedsRecovery with the ceiling off by one
NeedsRecoveryOffByOne(a) ==
    /\ a.status = AWAITING_MASTER_REVIEW
    /\ a.recoveryAttempts <= MaxRecoveryAttempts

\* 4.6: a worker the Recovery Manager may consult the planner for
NeedsRecovery(a) ==
    /\ a.status = AWAITING_MASTER_REVIEW
    /\ a.recoveryAttempts < MaxRecoveryAttempts

\* 4.6: a worker whose recovery is exhausted
Exhausted(a) ==
    /\ a.status = AWAITING_MASTER_REVIEW
    /\ a.recoveryAttempts >= MaxRecoveryAttempts

\* 4.6: recovery shares the "orchestrating" guard of plan intake
RecoveryFree == ~isOrchestrating

RecoveryCandidates == {i \in DOMAIN agents : NeedsRecovery(agents[i])}

\* 4.6: the periodic check finds one worker to recover and calls the planner
RecoveryTick ==
    /\ RecoveryFree
    /\ \A t \in turns : t.pc # "selected"
    /\ RecoveryCandidates # {}
    /\ isOrchestrating' = TRUE
    /\ remediating' = remediating \cup {agents[First(RecoveryCandidates)].id}
    /\ emitted' = <<LogEntry("info", "recovery")>>
    /\ UNCHANGED <<agents, agentSessions, processingRef, turns, timers,
                   planning, stepperDown, artifacts>>

\* CountAttempt that leaves the count as it is
CountAttemptNever(a) == a

\* 4.6, 4.1: a remediation plan that was applied counts one attempt
CountAttempt(a) ==
    IF a.status = AWAITING_MASTER_REVIEW
    THEN [a EXCEPT !.recoveryAttempts = a.recoveryAttempts + 1]
    ELSE a

\* 4.1 AwaitingRecovery -> Idle: the update of a worker a plan names
Respawn(a) ==
    IF a.status = AWAITING_MASTER_REVIEW
    THEN [a EXCEPT !.status = IDLE, !.currentTask = PlainTask]
    ELSE [a EXCEPT !.currentTask =
              IF a.status \in Terminal THEN a.currentTask ELSE PlainTask]

NamedIndexes(fleet, name) == {i \in DOMAIN fleet : fleet[i].name = name}

\* 3, 4.6: upsert-by-name
spawnOrUpdate(st, name) ==
    IF NamedIndexes(st.fleet, name) = {}
    THEN spawnAgent(st, name)
    ELSE LET i == First(NamedIndexes(st.fleet, name))
         IN  [fleet |-> [st.fleet EXCEPT ![i] = Respawn(st.fleet[i])],
              sessions |-> st.sessions \cup {st.fleet[i].id}]

RECURSIVE UpsertAll(_, _)
UpsertAll(st, tasks) ==
    IF tasks = <<>> THEN st
    ELSE UpsertAll(spawnOrUpdate(st, Head(tasks)), Tail(tasks))

ToError(a) ==
    IF a.status = AWAITING_MASTER_REVIEW THEN SetStatus(ERROR, a) ELSE a

\* Remediated with the worker put back to IDLE by any plan
RemediatedToIdle(fleet, id, planned) ==
    [i \in DOMAIN fleet |->
        IF fleet[i].id # id THEN fleet[i]
        ELSE IF planned THEN SetStatus(IDLE, CountAttempt(fleet[i]))
        ELSE ToError(fleet[i])]

\* the outcome of a remediation call, written to the worker it was made for
Remediated(fleet, id, planned) ==
    [i \in DOMAIN fleet |->
        IF fleet[i].id # id THEN fleet[i]
        ELSE IF planned THEN CountAttempt(fleet[i]) ELSE ToError(fleet[i])]

\* 4.6: the remediation call returns.  A plan is applied by name and the
\* attempt is counted; a failed call forces the worker to ERROR.
RecoveryReturn(id, outcome) ==
    /\ id \in remediating
    /\ \A t \in turns : t.pc # "selected"
    /\ remediating' = remediating \ {id}
    /\ isOrchestrating' = FALSE
    /\ LET plan == orchestratePlan(outcome)
       IN  IF ~plan.defined
           THEN /\ agents' = Remediated(agents, id, FALSE)
                /\ emitted' = <<LogEntry("error", "recovery failed")>>
                /\ UNCHANGED agentSessions
           ELSE /\ Cardinality(Ids \ UsedIds(agents, agentSessions))
                       >= Len(plan.tasks)
                /\ LET st == UpsertAll(
                                 [fleet |-> Remediated(agents, id, TRUE),
                                  sessions |-> agentSessions],
                                 plan.tasks)
                   IN  /\ agents' = st.fleet
                       /\ agentSessions' = st.sessions
                /\ emitted' = <<LogEntry("info", "remediation")>>
    /\ UNCHANGED <<processingRef, turns, timers, planning, stepperDown,
                   artifacts>>

\* GiveUp without the task label
GiveUpUnlabelled(a) == IF Exhausted(a) THEN SetStatus(ERROR, a) ELSE a

GiveUp(a) ==
    IF Exhausted(a)
    THEN [a EXCEPT !.status = ERROR, !.currentTask = ManualMarker]
    ELSE a

\* 4.6: the sweep of exhausted workers, independent of the recovery call
RecoverySweep ==
    /\ \E i \in DOMAIN agents : Exhausted(agents[i])
    /\ \A t \in turns : t.pc # "selected"
    /\ agents' = [i \in DOMAIN agents |-> GiveUp(agents[i])]
    /\ emitted' = <<LogEntry("error", "manual intervention")>>
    /\ UNCHANGED <<agentSessions, processingRef, turns, timers,
                   isOrchestrating, planning, remediating, stepperDown,
                   artifacts>>

\* In the recovery specifications a stepper call that returns completes the
\* task (the other way a turn ends there is TurnFailure), no stepper is
\* marked as down, and the planner names at most one task per plan:
\* progress values between 0 and 100 and workers of one name play no part
\* in recovery.
StepCompletes == \E t \in turns : StepReturn(t, Complete)

ShortOutcomes == {o \in PlannerOutcomes : Len(o.tasks) <= 1}
ShortPlanReturns == \E o \in ShortOutcomes : PlanReturn(o)

\* what the planner does with a remediation request: it fails, or it
\* returns a plan that is empty or names one worker, always the same
RemediationOutcomes ==
    {o \in ShortOutcomes : \A i \in DOMAIN o.tasks : o.tasks[i] = "Nexus"}

RecoveryReturns ==
    \E id \in remediating :
        \E o \in RemediationOutcomes : RecoveryReturn(id, o)

InitRecovery == Init /\ stepperDown = {}

NextRecovery ==
    \/ Directive /\ Quiet
    \/ ShortPlanReturns /\ Quiet
    \/ KillAll /\ Quiet
    \/ TickSelect /\ Quiet
    \/ TickThink /\ Quiet
    \/ StepCompletes /\ Quiet
    \/ CooldownExpire /\ Quiet
    \/ TurnFailure /\ Quiet
    \/ RecoveryTick /\ Quiet
    \/ RecoveryReturns /\ Quiet
    \/ RecoverySweep /\ Quiet

SpecRecovery == InitRecovery /\ [][NextRecovery]_vars

----------------------------------------------------------------------------
(* The global log.  The handlers of the code under src/, each with its     *)
(* entries appended to the ring; the session starts with no snapshot in    *)
(* local storage or with one whose log is about to fill the ring.          *)

SavedLog(n) == [i \in 1..n |-> [stamp |-> i, type |-> "info", tag |-> "saved"]]
SavedLogLengths == {LogCap - 2, LogCap - 1, LogCap}

\* lines 31-46: the snapshot's log is set and the restore is logged
RestoredLog(n) ==
    addLog(SavedLog(n), LogEntry("info", "restored"), n + 1)

InitLog ==
    /\ Created
    /\ stepperDown = {}
    /\ \/ globalLogs = <<>> /\ clock = 0
       \/ \E n \in SavedLogLengths :
              globalLogs = RestoredLog(n) /\ clock = n + 1

NextLog ==
    \/ Directive /\ Logged
    \/ PlanReturns /\ Logged
    \/ KillAll /\ Logged
    \/ TickSelect /\ Logged
    \/ TickThink /\ Logged
    \/ StepReturns /\ Logged
    \/ CooldownExpire /\ Logged

SpecLog == InitLog /\ [][NextLog]_vars

----------------------------------------------------------------------------
(* The artifact registry.  The handlers of the code under src/ with         *)
(* responses that carry plain text, the completion token and file blocks,   *)
(* in any order; a file body may hold the token, or blanks to trim.         *)

Pieces ==
    {Text("words"), Text(CompletionToken),
     File("a.txt", "v1"), File("a.txt", " v2 "),
     File("b.txt", CompletionToken)}

Texts == UNION {[1..n -> Pieces] : n \in 0..MaxPieces}

FileOutcomes == {Answer(text) : text \in Texts} \cup {Throw}

FileReturns == \E t \in turns : \E o \in FileOutcomes : StepReturn(t, o)

InitArtifacts == Init /\ stepperDown = {}

NextArtifacts ==
    \/ Directive /\ Quiet
    \/ ShortPlanReturns /\ Quiet
    \/ KillAll /\ Quiet
    \/ TickSelect /\ Quiet
    \/ TickThink /\ Quiet
    \/ FileReturns /\ Quiet
    \/ CooldownExpire /\ Quiet

SpecArtifacts == InitArtifacts /\ [][NextArtifacts]_vars

----------------------------------------------------------------------------
(* The persisted snapshot.  The handlers of the code under src/, each      *)
(* followed by the save-on-change effect of the render it causes, and the  *)
(* reload of the page: the refs, the timers and the calls in flight are    *)
(* gone, and the mount effect restores the state from the snapshot.        *)

\* the dependencies of the save effect: a handler that logs or sets the
\* fleet or the registry causes a render with new ones
Changed == agents' # agents \/ artifacts' # artifacts \/ emitted' # <<>>

\* what a handler and the render after it do to local storage
Persist(removes) ==
    /\ storage' = SaveOnChange(RemoveItem(storage, removes), Changed,
                               agents', artifacts')
    /\ UNCHANGED <<globalLogs, clock>>
    /\ Still

\* lines 8-57 on a new page: the state and the refs are created anew, the
\* mount effect sets the fleet and the registry of the snapshot and logs the
\* restore, and the save effect writes the state again
Reload ==
    /\ \A t \in turns : t.pc # "selected"
    /\ agents' = storage.agents
    /\ artifacts' = storage.artifacts
    /\ agentSessions' = {}
    /\ processingRef' = FALSE
    /\ turns' = {}
    /\ timers' = 0
    /\ isOrchestrating' = FALSE
    /\ planning' = 0
    /\ remediating' = {}
    /\ emitted' = IF storage.present
                  THEN <<LogEntry("info", "restored")>> ELSE <<>>
    /\ storage' = Snapshot(agents', artifacts')
    /\ broadcastEvent' = NoEvent
    /\ expiries' = <<>>
    /\ UNCHANGED <<stepperDown, globalLogs, clock>>

InitReload == Init /\ stepperDown = {}

NextReload ==
    \/ Directive /\ Persist(Len(agents) > 0)
    \/ PlanReturns /\ Persist(FALSE)
    \/ KillAll /\ Persist(TRUE)
    \/ TickSelect /\ Persist(FALSE)
    \/ TickThink /\ Persist(FALSE)
    \/ StepReturns /\ Persist(FALSE)
    \/ CooldownExpire /\ Persist(FALSE)
    \/ Reload

SpecReload == InitReload /\ [][NextReload]_vars

----------------------------------------------------------------------------
(* memoryUsage.  The handlers of the code under src/ with every growth the *)
(* write-back may draw, as long as memoryUsage stays within MaxMemory.     *)

WithinMemory(id, growth) ==
    \A i \in DOMAIN agents :
        agents[i].id = id => agents[i].memoryUsage + growth <= MaxMemory

GrowingReturns ==
    \E t \in turns : \E o \in StepperOutcomes : \E growth \in Growths :
        /\ WithinMemory(t.id, growth)
        /\ StepReturnWith(t, o, growth)

InitMemory == Init /\ stepperDown = {}

NextMemory ==
    \/ Directive /\ Quiet
    \/ PlanReturns /\ Quiet
    \/ KillAll /\ Quiet
    \/ TickSelect /\ Quiet
    \/ TickThink /\ Quiet
    \/ GrowingReturns /\ Quiet
    \/ CooldownExpire /\ Quiet

SpecMemory == InitMemory /\ [][NextMemory]_vars

----------------------------------------------------------------------------
(* Fairness.  The scheduler and the recovery check run on setInterval, the  *)
(* cool-down on setTimeout, and a call to the planner or the stepper is     *)
(* taken to return; kill-all and directives are the user's and are not      *)
(* forced.                                                                  *)

Fairness ==
    /\ WF_vars(TickSelect /\ Quiet)
    /\ WF_vars(TickThink /\ Quiet)
    /\ WF_vars(CooldownExpire /\ Quiet)
    /\ WF_vars(PlanReturns /\ Quiet)

FairSpec == Spec /\ Fairness /\ WF_vars(StepReturns /\ Quiet)

FairSpecRecovery ==
    /\ SpecRecovery
    /\ WF_vars(TickSelect /\ Quiet)
    /\ WF_vars(TickThink /\ Quiet)
    /\ WF_vars(CooldownExpire /\ Quiet)
    /\ WF_vars(ShortPlanReturns /\ Quiet)
    /\ WF_vars((StepCompletes \/ TurnFailure) /\ Quiet)
    /\ WF_vars(RecoveryTick /\ Quiet)
    /\ WF_vars(RecoveryReturns /\ Quiet)
    /\ WF_vars(RecoverySweep /\ Quiet)

----------------------------------------------------------------------------
(* Vocabulary of the claims *)

Outstanding == {t \in turns : t.pc = "awaiting"}

InFleet(fleet, id) == \E i \in DOMAIN fleet : fleet[i].id = id
AgentOf(fleet, id) == fleet[CHOOSE i \in DOMAIN fleet : fleet[i].id = id]

\* the workers present before and after a step
Kept == {id \in Ids : InFleet(agents, id) /\ InFleet(agents', id)}

\* a turn concludes in this step
Concluded(t) == t \in turns /\ t.pc = "awaiting" /\ t \notin turns'

----------------------------------------------------------------------------
\* C1 (single-flight): in every reachable state at most one stepper call is
\* outstanding fleet-wide and at most one worker has status THINKING.
C1_SingleFlight ==
    /\ Cardinality(Outstanding) <= 1
    /\ Cardinality(HasStatus(THINKING)) <= 1

\* a stepper call is outstanding for a worker of a fleet that a directive
\* has replaced, while a worker of the new fleet waits for the latch
C1_Witness ==
    /\ \E t \in Outstanding : ~InFleet(agents, t.id)
    /\ HasStatus(IDLE) # {}
    /\ processingRef

----------------------------------------------------------------------------
\* C2 (state machine): every status change of a worker is one of Idle->Working,
\* Working->Thinking, Thinking->Working, Thinking->Completed,
\* Thinking->AwaitingRecovery, AwaitingRecovery->Idle, AwaitingRecovery->Error,
\* non-terminal->Killed; a worker that appears in the fleet is Idle.
AllowedChanges ==
    {<<IDLE, WORKING>>, <<WORKING, THINKING>>, <<THINKING, WORKING>>,
     <<THINKING, COMPLETED>>, <<THINKING, AWAITING_MASTER_REVIEW>>,
     <<AWAITING_MASTER_REVIEW, IDLE>>, <<AWAITING_MASTER_REVIEW, ERROR>>}
        \cup {<<s, KILLED>> : s \in AgentStatus \ Terminal}

C2_ListedTransitions ==
    [][/\ \A id \in Kept :
            LET old == AgentOf(agents, id).status
                new == AgentOf(agents', id).status
            IN  old # new => <<old, new>> \in AllowedChanges
       /\ \A id \in Ids :
            InFleet(agents', id) /\ ~InFleet(agents, id)
                => AgentOf(agents', id).status = IDLE]_vars

----------------------------------------------------------------------------
\* C3 (terminal statuses): once a worker is Completed, Error or Killed, no
\* step changes its status.
C3_TerminalStays ==
    [][\A id \in Kept :
          AgentOf(agents, id).status \in Terminal
              => AgentOf(agents', id).status = AgentOf(agents, id).status]_vars

----------------------------------------------------------------------------
\* C4 (upsert-by-name): no two workers of the fleet share a name.
C4_UniqueNames ==
    \A i, j \in DOMAIN agents : agents[i].name = agents[j].name => i = j

----------------------------------------------------------------------------
\* C5 (progress monotonicity): a worker that is not Completed, Killed or Error
\* has progress at most 99; while it stays so its progress does not decrease,
\* step by step and from the start of a turn to its write-back; a worker is
\* Completed exactly when its progress is 100.
ProgressInRange ==
    \A i \in DOMAIN agents :
        /\ agents[i].status \notin Terminal
               => agents[i].progress <= ProgressCap
        /\ agents[i].status = COMPLETED
               <=> agents[i].progress = ProgressDone

----------------------------------------------------------------------------
\* C6 (stepper failure): when the stepper call of a turn fails, the turn
\* leaves its worker in AwaitingRecovery with lastErrorMessage set, an error
\* entry is logged, and no other worker changes.
C6_StepperFailure ==
    [][\A t \in turns :
          StepReturn(t, Throw) /\ InFleet(agents, t.id)
            => /\ AgentOf(agents', t.id).status = AWAITING_MASTER_REVIEW
               /\ AgentOf(agents', t.id).lastErrorMessage # ""
               /\ \E k \in DOMAIN emitted' : emitted'[k].type = "error"
               /\ \A i \in DOMAIN agents :
                     agents[i].id # t.id => agents'[i] = agents[i]]_vars

----------------------------------------------------------------------------
\* C7 (failure isolation): while some worker's stepper fails permanently, a
\* worker with a healthy stepper that is Idle or Working does not stay so
\* forever without a turn.
Waits(n) ==
    /\ n \notin stepperDown
    /\ \E i \in DOMAIN agents :
          agents[i].name = n /\ agents[i].status \in {IDLE, WORKING}
    /\ \E i \in DOMAIN agents : agents[i].name \in stepperDown

Served(n) ==
    \/ \E t \in turns : t.name = n
    \/ ~ \E i \in DOMAIN agents :
            agents[i].name = n /\ agents[i].status \in {IDLE, WORKING}

C7_FailureIsolation == \A n \in PlanNames : Waits(n) ~> Served(n)

----------------------------------------------------------------------------
\* C8 (recovery bound): every worker has recoveryAttempts <= 3, and no
\* remediation call is outstanding for a worker whose recoveryAttempts is 3.
C8_RecoveryBound ==
    /\ \A i \in DOMAIN agents :
          agents[i].recoveryAttempts <= MaxRecoveryAttempts
    /\ \A id \in remediating :
          InFleet(agents, id)
              => AgentOf(agents, id).recoveryAttempts < MaxRecoveryAttempts

\* a worker has used up its three attempts and awaits recovery again
C8_Witness == \E i \in DOMAIN agents : Exhausted(agents[i])

----------------------------------------------------------------------------
\* C9 (exhausted recovery), as stated: a worker in AwaitingRecovery with
\* recoveryAttempts >= 3 is eventually in Error with the manual-intervention
\* task label.
GaveUp(id) ==
    /\ InFleet(agents, id)
    /\ AgentOf(agents, id).status = ERROR
    /\ AgentOf(agents, id).currentTask = ManualMarker

IsExhausted(id) == InFleet(agents, id) /\ Exhausted(AgentOf(agents, id))

C9_AsStated == \A id \in Ids : IsExhausted(id) ~> GaveUp(id)

\* C9 (exhausted recovery), amended: such a worker does not stay in
\* AwaitingRecovery: unless a kill, a new directive or a remediation plan
\* naming it takes it out first, the sweep moves it to Error with the
\* manual-intervention label; and while it waits no remediation call is
\* made for it.
C9_ExhaustedRecovery ==
    /\ \A id \in Ids : IsExhausted(id) ~> (GaveUp(id) \/ ~IsExhausted(id))
    /\ [][\A id \in Ids :
             IsExhausted(id) /\ IsExhausted(id)'
                 => (id \in remediating' => id \in remediating)]_vars
    /\ [][\A id \in Ids :
             IsExhausted(id) /\ InFleet(agents', id)
               /\ AgentOf(agents', id).status = ERROR
                 => AgentOf(agents', id).currentTask = ManualMarker]_vars

\* the sweep has moved an exhausted worker to Error
C9_Witness ==
    \E i \in DOMAIN agents :
        /\ agents[i].status = ERROR
        /\ agents[i].currentTask = ManualMarker
        /\ agents[i].recoveryAttempts = MaxRecoveryAttempts

----------------------------------------------------------------------------
\* C10 (orchestrating mutual exclusion): at most one planner call, plan
\* intake or remediation, is outstanding, and the orchestrating flag is up
\* while it is.
C10_PlannerMutex ==
    /\ planning + Cardinality(remediating) <= 1
    /\ planning + Cardinality(remediating) = 1 => isOrchestrating

\* a remediation call is outstanding while the command input is disabled
C10_Witness == remediating # {} /\ ~InputEnabled /\ planning = 0

----------------------------------------------------------------------------
\* C11 (log ring bound): the global log holds at most 100 entries, and they
\* are the most recently appended ones in append order: the log is the last
\* min(n, 100) of the n entries created so far, and it ends with the entries
\* of the last handler.
C11_LogRing ==
    /\ Len(globalLogs) <= LogCap
    /\ Len(globalLogs) = Min(clock, LogCap)
    /\ \A i \in DOMAIN globalLogs :
          globalLogs[i].stamp = clock - Len(globalLogs) + i
    /\ \A k \in DOMAIN emitted :
          LET i == Len(globalLogs) - Len(emitted) + k
          IN  /\ i \in DOMAIN globalLogs
              /\ globalLogs[i].type = emitted[k].type
              /\ globalLogs[i].tag = emitted[k].tag

\* a handler has appended two entries to a full ring, which dropped its
\* oldest ones
C11_Witness ==
    /\ Len(emitted) = 2
    /\ Len(globalLogs) = LogCap
    /\ globalLogs[1].stamp > 2

----------------------------------------------------------------------------
\* C12 (artifact path uniqueness): no two artifacts of the registry have the
\* same path, also after a response with several file blocks of one path.
C12_UniquePaths ==
    \A i, j \in DOMAIN artifacts :
        artifacts[i].path = artifacts[j].path => i = j

\* a response with two file blocks has just been written and the registry
\* holds one entry: the two blocks had the same path
C12_Witness ==
    /\ Len(artifacts) = 1
    /\ artifacts[1].content = "v2"
    /\ emitted = <<LogEntry("artifact", GeneratedTag(2)),
                   LogEntry("thought", GeneratedFile)>>

----------------------------------------------------------------------------
\* C13 (artifact last-write-wins): a write to a path the registry holds
\* leaves the size unchanged and the entry's content equal to the latest
\* write; a write to a new path adds exactly one entry, the written one;
\* every other entry is unchanged.  Stated for every registry the program
\* reaches, for one write and for a second write after it.
Held(registry) == {registry[i].path : i \in DOMAIN registry}

Writes ==
    {Artifact(piece, name) : piece \in {q \in Pieces : IsFile(q)},
                             name \in Names}

WriteWins(registry, newArt) ==
    LET next == UpsertOne(registry, newArt)
    IN  IF newArt.path \in Held(registry)
        THEN /\ Len(next) = Len(registry)
             /\ \A i \in DOMAIN registry :
                   next[i] = IF registry[i].path = newArt.path
                             THEN newArt ELSE registry[i]
        ELSE /\ Len(next) = Len(registry) + 1
             /\ next[Len(next)] = newArt
             /\ \A i \in DOMAIN registry : next[i] = registry[i]

C13_LastWriteWins ==
    \A first \in Writes :
        /\ WriteWins(artifacts, first)
        /\ \A second \in Writes :
              WriteWins(UpsertOne(artifacts, first), second)

\* a response has just written one path twice: the registry holds one
\* entry, with the content of the second block
C13_Witness ==
    /\ Len(artifacts) = 1
    /\ artifacts[1].content = "v1"
    /\ emitted = <<LogEntry("artifact", GeneratedTag(2)),
                   LogEntry("thought", GeneratedFile)>>

----------------------------------------------------------------------------
\* C14 (kill-all post-condition): right after the fleet-wide kill every
\* worker that was not terminal is Killed with progress 0 and the terminated
\* task marker, and no session handle is left, with or without a turn in
\* flight.
C14_KillPost ==
    [][KillAll =>
          /\ Len(agents') = Len(agents)
          /\ \A i \in DOMAIN agents :
                agents[i].status \notin Terminal
                    => /\ agents'[i].id = agents[i].id
                       /\ agents'[i].status = KILLED
                       /\ agents'[i].progress = 0
                       /\ agents'[i].currentTask = KillMarker
          /\ agentSessions' = {}]_vars

\* the kill has just hit a worker that had made progress and whose stepper
\* call is still outstanding
C14_Witness ==
    /\ emitted = <<LogEntry("error", "kill-switch")>>
    /\ agentSessions = {}
    /\ \E t \in Outstanding :
          /\ t.progress > 0
          /\ InFleet(agents, t.id)
          /\ AgentOf(agents, t.id).status = KILLED
          /\ AgentOf(agents, t.id).progress = 0

----------------------------------------------------------------------------
\* C15 (plan intake replaces the fleet): a directive given while workers
\* exist discards the workers, the artifacts and the session handles; until
\* its plan arrives the fleet and the handles stay empty; and when the plan
\* is processed the fleet is exactly the workers spawned from it, each with
\* its handle, and the registry holds no artifact of the previous fleet
\* (the new workers have had no turn yet, so it holds none at all).
Processed(o) == PlanReturn(o) /\ orchestratePlan(o).defined

SpawnedFrom(tasks) ==
    /\ Len(agents') = Len(tasks)
    /\ \A i \in DOMAIN agents' :
          /\ agents'[i].name = tasks[i]
          /\ agents'[i].status = IDLE
          /\ agents'[i].progress = 0
    /\ \A i, j \in DOMAIN agents' : agents'[i].id = agents'[j].id => i = j
    /\ agentSessions' = FleetIds(agents')

C15_Discards ==
    [][Directive /\ Len(agents) > 0
          => agents' = <<>> /\ artifacts' = <<>> /\ agentSessions' = {}]_vars

C15_EmptyWhilePlanning ==
    [](planning > 0 => agents = <<>> /\ agentSessions = {})

C15_FleetFromPlan ==
    [][\A o \in PlannerOutcomes :
          Processed(o) => SpawnedFrom(orchestratePlan(o).tasks)]_vars

C15_NoOldArtifacts ==
    [][\A o \in PlannerOutcomes : Processed(o) => artifacts' = <<>>]_vars

C15_IntakeReplaces ==
    /\ C15_Discards
    /\ C15_EmptyWhilePlanning
    /\ C15_FleetFromPlan
    /\ C15_NoOldArtifacts

----------------------------------------------------------------------------
\* C16 (planner fallback): when the planner call fails or its output is
\* malformed, plan intake spawns exactly one worker, the fallback one, and
\* after every completed planning call the fleet is not empty.
Failed(o) == o.kind \in {"error", "notasks"}

C16_PlannerFallback ==
    [][\A o \in PlannerOutcomes :
          PlanReturn(o)
              => /\ Failed(o)
                      => /\ Len(agents') = Len(agents) + 1
                         /\ agents'[Len(agents')].name = FallbackName
                         /\ agents'[Len(agents')].status = IDLE
                 /\ agents' # <<>>]_vars

----------------------------------------------------------------------------
\* C17 (completion): a turn whose raw response text contains the completion
\* token anywhere, inside a file block included, ends with its worker
\* Completed at progress 100; a turn whose response does not contain it ends
\* with the worker Working.
RawHasToken(text) == \E i \in DOMAIN text : text[i].body = CompletionToken

C17_Completion ==
    [][\A t \in turns : \A o \in FileOutcomes :
          StepReturn(t, o) /\ InFleet(agents, t.id)
              => IF RawHasToken(stepAgent(o))
                 THEN /\ AgentOf(agents', t.id).status = COMPLETED
                      /\ AgentOf(agents', t.id).progress = ProgressDone
                 ELSE AgentOf(agents', t.id).status = WORKING]_vars

----------------------------------------------------------------------------
\* C18 (latch policy): whenever a turn starts, the selected worker is Working
\* if any worker is Working, otherwise it is Idle; no Idle worker is given
\* its first turn while another worker is Working; and no turn starts when
\* no worker is Working or Idle.
Started == {t \in turns' \ turns : t.pc = "selected"}

----------------------------------------------------------------------------
\* C19 (cool-down): the conclusion of a turn, whatever its outcome, leaves a
\* cool-down pending with the latch held; the latch is released only by the
\* expiry of a cool-down; and no turn starts while a cool-down is pending.
\* So between the conclusion of a turn and the start of the next one the
\* cool-down of the concluded turn has expired.
C19_Cooldown ==
    [][/\ \A t \in turns :
            Concluded(t) => timers' = 1 /\ processingRef /\ processingRef'
       /\ processingRef /\ ~processingRef' => timers = 1 /\ timers' = 0
       /\ Started # {} => timers = 0 /\ ~processingRef]_vars

\* a worker that is to be resumed waits while the cool-down of its last
\* turn is pending
C19_Witness ==
    /\ timers = 1
    /\ processingRef
    /\ turns = {}
    /\ HasStatus(WORKING) # {}

----------------------------------------------------------------------------
\* C20 (the scheduler loop never halts): whatever the outcome of a turn, the
\* latch it holds is eventually released, and while some worker is Working
\* or Idle a turn is eventually started.
Candidates == HasStatus(WORKING) \cup HasStatus(IDLE)
Starting == \E t \in turns : t.pc = "selected"

C20_LoopNeverHalts ==
    /\ processingRef ~> ~processingRef
    /\ (Candidates # {}) ~> (Starting \/ Candidates = {})

\* the turn of a worker whose stepper is down has concluded on the error
\* text, and the latch is still held for the cool-down
C20_Witness ==
    /\ stepperDown # {}
    /\ emitted = <<LogEntry("thought", "ERROR: Connection interrupted.")>>
    /\ processingRef
    /\ timers = 1
    /\ Candidates # {}

----------------------------------------------------------------------------
\* C21 (snapshot cleared): once a fleet-wide kill, or the fleet reset of a
\* new directive, and the save-on-change of the render it causes have run,
\* a load-on-start finds no worker: neither the killed fleet nor the
\* discarded one.
C21_SnapshotCleared ==
    [][KillAll \/ (Directive /\ Len(agents) > 0)
          => storage'.agents = <<>>]_vars

----------------------------------------------------------------------------
\* C22 (spawn count): when the plan of a directive has n task specs with
\* pairwise distinct names and the fleet is empty, processing it yields
\* exactly n workers, one per task spec in the plan's order, all Idle with
\* progress 0.
DistinctNames(tasks) ==
    \A i, j \in DOMAIN tasks : tasks[i] = tasks[j] => i = j

C22_SpawnCount ==
    [][\A o \in PlannerOutcomes :
          /\ Processed(o)
          /\ agents = <<>>
          /\ DistinctNames(orchestratePlan(o).tasks)
          => /\ Len(agents') = Len(orchestratePlan(o).tasks)
             /\ \A i \in DOMAIN agents' :
                   /\ agents'[i].name = orchestratePlan(o).tasks[i]
                   /\ agents'[i].status = IDLE
                   /\ agents'[i].progress = 0]_vars

\* a plan of two task specs with distinct names has just been processed
C22_Witness ==
    /\ Len(agents) = 2
    /\ DistinctNames([i \in DOMAIN agents |-> agents[i].name])
    /\ HasStatus(IDLE) = DOMAIN agents
    /\ Len(emitted) = Len(agents) + 1
    /\ emitted[1] = LogEntry("info", "strategy")

----------------------------------------------------------------------------
\* C23 (a turn changes only the selected worker): a step of the Turn
\* Executor, from the start of a turn to its write-back, leaves the fleet's
\* size and the status, progress and memoryUsage of every worker other than
\* the turn's own unchanged, whatever the outcome of the stepper call.
Acting == {t.id : t \in (turns \ turns') \cup (turns' \ turns)}

C23_TurnFrame ==
    [][Acting # {}
          => /\ Len(agents') = Len(agents)
             /\ \A i \in DOMAIN agents :
                   agents[i].id \notin Acting
                       => /\ agents'[i].id = agents[i].id
                          /\ agents'[i].status = agents[i].status
                          /\ agents'[i].progress = agents[i].progress
                          /\ agents'[i].memoryUsage
                                 = agents[i].memoryUsage]_vars

\* a turn has just been written back with a growth of memoryUsage, next to
\* a worker that has not had a turn yet
C23_Witness ==
    /\ timers = 1
    /\ turns = {}
    /\ \E i, j \in DOMAIN agents :
          /\ agents[i].status = WORKING
          /\ agents[i].memoryUsage > MemoryBaseline
          /\ agents[j].status = IDLE
          /\ agents[j].memoryUsage = MemoryBaseline

----------------------------------------------------------------------------
\* C24 (kill during a turn in flight): when the stepper call of a worker
\* returns after a fleet-wide kill, the results are discarded: the worker
\* stays Killed with progress 0 and the registry is as it was; and no turn
\* is started for a killed worker, so that no stepper call is made until a
\* new directive has spawned workers.
WasKilled(a) == a.currentTask = KillMarker

C24_KillDiscards ==
    /\ [][\A t \in turns :
             /\ Concluded(t)
             /\ InFleet(agents, t.id)
             /\ AgentOf(agents, t.id).status = KILLED
             => /\ AgentOf(agents', t.id).status = KILLED
                /\ AgentOf(agents', t.id).progress = 0
                /\ artifacts' = artifacts]_vars
    /\ [][\A t \in Started :
             InFleet(agents, t.id) => ~WasKilled(AgentOf(agents, t.id))]_vars

----------------------------------------------------------------------------
\* C25 (new directive during a turn in flight): when the stepper call of a
\* worker that a directive has discarded returns, the registry and the
\* fleet are as they were; and every artifact of the registry was created
\* by a worker of the current fleet.
CreatedByFleet ==
    \A i \in DOMAIN artifacts :
        \E j \in DOMAIN agents : agents[j].name = artifacts[i].createdBy

C25_LateReturn ==
    /\ [][\A t \in turns :
             Concluded(t) /\ ~InFleet(agents, t.id)
                 => artifacts' = artifacts /\ agents' = agents]_vars
    /\ []CreatedByFleet

----------------------------------------------------------------------------
\* C26 (latch release discipline): a cool-down timer is armed only by the
\* conclusion of the turn that holds the latch; while one is pending it is
\* the only one, the latch is held and no turn is in progress; and the
\* latch is released only by the expiry of that timer, never while a
\* stepper call is outstanding.  So no timer of an earlier tick releases
\* the latch of a later turn.
C26_LatchRelease ==
    /\ [](timers > 0 => timers = 1 /\ processingRef /\ turns = {})
    /\ [][timers' > timers
             => processingRef /\ \E t \in turns : Concluded(t)]_vars
    /\ [][processingRef /\ ~processingRef'
             => Outstanding = {} /\ timers' = timers - 1]_vars

\* a stepper call is outstanding, no timer pending, for a worker that had
\* no session handle when it was selected (the kill removed it), after an
\* earlier turn of that worker and its cool-down
C26_Witness ==
    /\ timers = 0
    /\ processingRef
    /\ \E t \in Outstanding :
          /\ t.progress > 0
          /\ InFleet(agents, t.id)
          /\ WasKilled(AgentOf(agents, t.id))

----------------------------------------------------------------------------
\* C27 (Thinking implies in flight): whenever a worker has status Thinking,
\* a stepper call for that worker is outstanding, also after the fleet has
\* been restored from the persisted snapshot.
C27_ThinkingInFlight ==
    \A i \in DOMAIN agents :
        agents[i].status = THINKING
            => \E t \in Outstanding : t.id = agents[i].id

----------------------------------------------------------------------------
\* C28 (lazy session rehydration): the tick that has selected a worker goes
\* on to the stepper call whether or not the worker has a session handle:
\* after it the call is outstanding, a handle is registered under the
\* worker's id, and the worker is Thinking, not Error.
Advanced == {t \in turns \ turns' : t.pc = "selected"}

C28_LazyHydration ==
    [][\A t \in Advanced :
          /\ \E u \in turns' : u.id = t.id /\ u.pc = "awaiting"
          /\ t.id \in agentSessions'
          /\ InFleet(agents', t.id)
          /\ AgentOf(agents', t.id).status = THINKING]_vars

\* after a restore, a worker without a handle has been selected and its
\* stepper call is outstanding under a new handle, while another restored
\* worker still has none
C28_Witness ==
    /\ \E t \in Outstanding : agentSessions = {t.id}
    /\ \E i \in DOMAIN agents :
          /\ agents[i].status = IDLE
          /\ agents[i].id \notin agentSessions

----------------------------------------------------------------------------
\* C29 (recovery planner failure): when the remediation planner call made
\* for a worker in AwaitingRecovery fails, the worker is moved to Error
\* and no worker is spawned.
C29_RecoveryFailure ==
    [][\A id \in remediating : \A o \in RemediationOutcomes :
          /\ RecoveryReturn(id, o)
          /\ Failed(o)
          /\ InFleet(agents, id)
          /\ AgentOf(agents, id).status = AWAITING_MASTER_REVIEW
          => /\ InFleet(agents', id)
             /\ AgentOf(agents', id).status = ERROR
             /\ Len(agents') = Len(agents)]_vars

----------------------------------------------------------------------------
\* C30 (conservative recovery): after a successful remediation call whose
\* plan does not name the worker it was made for, that worker is still in
\* AwaitingRecovery; and a worker leaves AwaitingRecovery for Idle only in
\* the return of a remediation call whose plan has a task spec with its
\* name.
NamedIn(o, a) ==
    \E k \in DOMAIN orchestratePlan(o).tasks :
        orchestratePlan(o).tasks[k] = a.name

Planned(id, o) == RecoveryReturn(id, o) /\ orchestratePlan(o).defined

C30_Conservative ==
    /\ [][\A id \in remediating : \A o \in RemediationOutcomes :
             /\ Planned(id, o)
             /\ InFleet(agents, id)
             /\ AgentOf(agents, id).status = AWAITING_MASTER_REVIEW
             /\ ~NamedIn(o, AgentOf(agents, id))
             => /\ InFleet(agents', id)
                /\ AgentOf(agents', id).status
                       = AWAITING_MASTER_REVIEW]_vars
    /\ [][\A id \in Kept :
             /\ AgentOf(agents, id).status = AWAITING_MASTER_REVIEW
             /\ AgentOf(agents', id).status = IDLE
             => \E rid \in remediating : \E o \in RemediationOutcomes :
                   Planned(rid, o) /\ NamedIn(o, AgentOf(agents, id))]_vars

\* a remediation plan that names another worker has just been processed:
\* the worker it was made for has one attempt counted and still awaits
\* recovery, next to the worker the plan spawned
C30_Witness ==
    /\ emitted = <<LogEntry("info", "remediation")>>
    /\ \E i, j \in DOMAIN agents :
          /\ agents[i].status = AWAITING_MASTER_REVIEW
          /\ agents[i].recoveryAttempts = 1
          /\ agents[i].name # "Nexus"
          /\ agents[j].name = "Nexus"
          /\ agents[j].status = IDLE

----------------------------------------------------------------------------
\* C31 (bounded recovery), as stated: every worker that enters
\* AwaitingRecovery is eventually Idle or in Error.
Awaits(id) ==
    /\ InFleet(agents, id)
    /\ AgentOf(agents, id).status = AWAITING_MASTER_REVIEW

IdleOrError(id) ==
    /\ InFleet(agents, id)
    /\ AgentOf(agents, id).status \in {IDLE, ERROR}

C31_AsStated == \A id \in Ids : Awaits(id) ~> IdleOrError(id)

\* C31 (bounded recovery), amended: a remediation call is issued for a
\* worker only while its recoveryAttempts is below 3, and a call that
\* returns while the worker still awaits recovery either counts one attempt
\* or moves it to Error, so at most 3 calls are made for a worker; and no
\* worker stays in AwaitingRecovery for ever: it leaves for Idle or Error
\* unless a kill or a new directive takes it out first, also when the
\* remediation plans never name it.
C31_BoundedRecovery ==
    /\ [][\A id \in Ids :
             id \in remediating' /\ id \notin remediating
                 => /\ Awaits(id)
                    /\ AgentOf(agents, id).recoveryAttempts
                           < MaxRecoveryAttempts]_vars
    /\ [][\A id \in Ids :
             id \in remediating /\ id \notin remediating' /\ Awaits(id)
                 => /\ InFleet(agents', id)
                    /\ \/ AgentOf(agents', id).status = ERROR
                       \/ AgentOf(agents', id).recoveryAttempts
                              = AgentOf(agents, id).recoveryAttempts + 1]_vars
    /\ \A id \in Ids : Awaits(id) ~> ~Awaits(id)
    /\ [][\A id \in Ids :
             Awaits(id) /\ InFleet(agents', id) /\ ~Awaits(id)'
                 => AgentOf(agents', id).status \in {IDLE, ERROR, KILLED}]_vars

\* a worker no remediation plan named has had three calls made for it and
\* was swept to Error
C31_Witness ==
    \E i \in DOMAIN agents :
        /\ agents[i].name # "Nexus"
        /\ agents[i].status = ERROR
        /\ agents[i].recoveryAttempts = MaxRecoveryAttempts

----------------------------------------------------------------------------
\* the worker after k turns that did not complete
MaxTurns == 8

RECURSIVE AfterTurns(_, _)
AfterTurns(k, a) ==
    IF k = 0 THEN a ELSE WriteBack(FALSE, AfterTurns(k - 1, a))

\* C32 (progress step): a turn that concludes without completing leaves the
\* worker's progress at min(99, previous progress + 15), and the progress
\* of every worker that is not Completed is the progress after k
\* non-completing turns of a fresh spawn, which is min(99, 15 * k).
C32_ProgressStep ==
    /\ [][\A t \in turns :
             /\ Concluded(t)
             /\ t.id \in Kept
             /\ AgentOf(agents', t.id).status # COMPLETED
             => AgentOf(agents', t.id).progress =
                   Min(ProgressCap,
                       AgentOf(agents, t.id).progress + ProgressStep)]_vars
    /\ [](\A i \in DOMAIN agents :
             agents[i].status # COMPLETED
                 => \E k \in 0..MaxTurns :
                        /\ agents[i].progress = Min(ProgressCap, ProgressStep * k)
                        /\ agents[i].progress =
                              AfterTurns(k, NewAgent(agents[i].id,
                                                     agents[i].name)).progress)

\* a worker six non-completing turns after its spawn
C32_Witness ==
    \E i \in DOMAIN agents :
        /\ agents[i].status = WORKING
        /\ ~WasKilled(agents[i])
        /\ agents[i].progress = 6 * ProgressStep

----------------------------------------------------------------------------
(* The Context Bus.  The handlers of the code under src/ with the global   *)
(* log, and responses that are plain, a broadcast, the completion token,   *)
(* a file block, or a broadcast with a file block.                         *)

ContextSize == 5

\* line 179: l.message.includes('BROADCAST:'); the tag of an entry is the
\* head of its message
MessageIncludes(l, word) == l.tag = word

\* lines 178-183: the filter of the shared context
Contributes(l) ==
    \/ MessageIncludes(l, BroadcastMarker)
    \/ l.type = "success"
    \/ l.type = "artifact"
    \/ l.type = "thought"

\* Array.prototype.slice(-n)
LastOf(s, n) == IF Len(s) <= n THEN s ELSE SubSeq(s, Len(s) - n + 1, Len(s))

\* sharedContext with slice(0, 5)
sharedContextOldest(log) ==
    LET kept == SelectSeq(log, Contributes)
    IN  [i \in 1..Min(ContextSize, Len(kept)) |-> kept[i].tag]

\* lines 177-186: filter, slice(-5), map to the messages; join(" | ")
\* keeps their order
sharedContext(log) ==
    LET kept == LastOf(SelectSeq(log, Contributes), ContextSize)
    IN  [i \in DOMAIN kept |-> kept[i].tag]

MaxBusAppends == 9

LoggedBus ==
    /\ clock + Len(emitted') <= MaxBusAppends
    /\ globalLogs' = AddLogs(globalLogs, emitted', clock)
    /\ clock' = clock + Len(emitted')
    /\ UNCHANGED storage
    /\ Still

BusTexts ==
    {<<Text("words")>>, <<Text(BroadcastMarker)>>, <<Text(CompletionToken)>>,
     <<File("a.txt", "v1")>>, <<Text(BroadcastMarker), File("a.txt", "v1")>>}

BusOutcomes == {Answer(text) : text \in BusTexts}

BusReturns == \E t \in turns : \E o \in BusOutcomes : StepReturn(t, o)

\* the planner answers a directive with a plan of one worker
BusPlans == {o \in ShortOutcomes : o.kind = "plan" /\ o.tasks = <<"Nexus">>}

BusPlanReturns == \E o \in BusPlans : PlanReturn(o)

InitBus == Created /\ stepperDown = {} /\ globalLogs = <<>> /\ clock = 0

NextBus ==
    \/ Directive /\ LoggedBus
    \/ BusPlanReturns /\ LoggedBus
    \/ KillAll /\ LoggedBus
    \/ TickSelect /\ LoggedBus
    \/ TickThink /\ LoggedBus
    \/ BusReturns /\ LoggedBus
    \/ CooldownExpire /\ LoggedBus

SpecBus == InitBus /\ [][NextBus]_vars

----------------------------------------------------------------------------
\* C33 (Context Bus): the shared context of a turn is the messages, in
\* chronological order, of the last 5 (or all, if fewer) entries of the
\* global log that are of type success, artifact or thought or carry the
\* broadcast marker; no entry of type error and no info entry without the
\* marker is among them.
Contributors ==
    {i \in DOMAIN globalLogs :
        \/ globalLogs[i].type \in {"success", "artifact", "thought"}
        \/ globalLogs[i].tag = BroadcastMarker}

\* the contributors with fewer than 5 contributors after them
Recent ==
    {i \in Contributors :
        Cardinality({j \in Contributors : j > i}) < ContextSize}

\* the place of a recent contributor among the recent contributors
Place(recent, i) == Cardinality({j \in recent : j <= i})

----------------------------------------------------------------------------
(* The broadcast slot.  The handlers of the code under src/ with the slot  *)
(* and its timeouts; the timeouts have one delay and fire in the order in  *)
(* which they were armed.                                                  *)

MaxStamp == 3

Unlogged == UNCHANGED <<globalLogs, clock, storage>>

\* Date.now() of a new broadcast: later than every broadcast still shown or
\* awaited by a timeout
Now ==
    1 + (IF expiries = <<>> THEN broadcastEvent.timestamp
         ELSE expiries[Len(expiries)])

\* lines 216-225: a broadcast is put in the slot and a timeout is armed
setBroadcast(id, text) ==
    IF IsBroadcast(text)
    THEN /\ Now <= MaxStamp
         /\ broadcastEvent' = [sourceId |-> id, timestamp |-> Now]
         /\ expiries' = Append(expiries, Now)
    ELSE Still

BroadcastReturns ==
    \E t \in turns : \E o \in BusOutcomes :
        StepReturn(t, o) /\ setBroadcast(t.id, stepAgent(o))

\* line 224: setTimeout(() => setBroadcastEvent(null), 3000) fires
ExpiryFires ==
    /\ expiries # <<>>
    /\ \A t \in turns : t.pc # "selected"
    /\ broadcastEvent' = NoEvent
    /\ expiries' = Tail(expiries)
    /\ emitted' = <<>>
    /\ UNCHANGED <<agents, agentSessions, processingRef, turns, timers,
                   isOrchestrating, planning, remediating, stepperDown,
                   artifacts>>

InitBroadcast == Init /\ stepperDown = {}

NextBroadcast ==
    \/ Directive /\ Quiet
    \/ BusPlanReturns /\ Quiet
    \/ KillAll /\ Quiet
    \/ TickSelect /\ Quiet
    \/ TickThink /\ Quiet
    \/ BroadcastReturns /\ Unlogged
    \/ CooldownExpire /\ Quiet
    \/ ExpiryFires /\ Unlogged

SpecBroadcast == InitBroadcast /\ [][NextBroadcast]_vars

----------------------------------------------------------------------------
\* C35 (broadcast slot expiry): a broadcast in the slot stays there until a
\* newer broadcast replaces it or the timeout it armed itself fires: the
\* timeout of an earlier broadcast never clears a newer one.
Shown == broadcastEvent # NoEvent

C35_OwnExpiry ==
    [][Shown /\ broadcastEvent' # broadcastEvent
          => \/ /\ Shown'
                /\ broadcastEvent'.timestamp > broadcastEvent.timestamp
             \/ /\ ~Shown'
                /\ expiries # <<>>
                /\ Head(expiries) = broadcastEvent.timestamp]_vars

----------------------------------------------------------------------------
\* the entries a step logs for a response, and the response of a step
IsResponseEntry(l) == l.type \in {"artifact", "info", "thought"}
ResponseEntries == SelectSeq(emitted', IsResponseEntry)
HasFiles(text) == \E i \in DOMAIN text : IsFile(text[i])

\* C34 (turn log typing), as stated: a turn whose stepper call answered
\* logs exactly one entry for the response, of type artifact if the
\* response has files, otherwise info if it is a broadcast, otherwise
\* thought.
C34_AsStated ==
    [][\A t \in turns : \A o \in BusOutcomes :
          StepReturn(t, o)
              => /\ Len(ResponseEntries) = 1
                 /\ ResponseEntries[1].type =
                       IF HasFiles(stepAgent(o)) THEN "artifact"
                       ELSE IF IsBroadcast(stepAgent(o)) THEN "info"
                       ELSE "thought"]_vars

\* C34 (turn log typing), amended: such a turn logs one artifact entry
\* exactly when the response has files, and after it one entry for the
\* message exactly when the response without its file blocks and the
\* completion token is not empty, of type info if it is a broadcast and
\* thought otherwise; so a response with files logs two entries and a
\* response of the token alone logs none.
C34_TurnLogTyping ==
    [][\A t \in turns : \A o \in BusOutcomes :
          StepReturn(t, o)
              => LET text == stepAgent(o)
                     files == SelectSeq(ResponseEntries,
                                  LAMBDA l : l.type = "artifact")
                     words == SelectSeq(ResponseEntries,
                                  LAMBDA l : l.type # "artifact")
                 IN  /\ Len(files) = IF HasFiles(text) THEN 1 ELSE 0
                     /\ Len(words) =
                           IF CleanResponse(text) # <<>> THEN 1 ELSE 0
                     /\ ResponseEntries = files \o words
                     /\ \A i \in DOMAIN words :
                           words[i].type =
                              IF IsBroadcast(text) THEN "info"
                              ELSE "thought"]_vars

\* a turn has logged an artifact entry and a broadcast after it
C34_Witness ==
    \E i \in DOMAIN globalLogs :
        /\ i > 1
        /\ globalLogs[i].type = "info"
        /\ globalLogs[i].tag = BroadcastMarker
        /\ globalLogs[i - 1].type = "artifact"

----------------------------------------------------------------------------
\* C36 (dependency wait): a turn that takes a worker from Idle to Working
\* starts only when every worker of the fleet that its dependencies name is
\* Completed.
FirstTurns ==
    {t \in Started :
        InFleet(agents, t.id) /\ AgentOf(agents, t.id).status = IDLE}

DependenciesOf(id) ==
    {i \in DOMAIN agents :
        agents[i].name \in AgentOf(agents, id).dependencies}

C36_DependencyWait ==
    [][\A t \in FirstTurns :
          \A i \in DependenciesOf(t.id) : agents[i].status = COMPLETED]_vars

----------------------------------------------------------------------------
\* C37 (orchestrating flag): whenever the orchestrating flag is raised by an
\* accepted directive it is eventually lowered again, whatever the planner
\* returns, so that a further directive can be accepted.
C37_FlagCleared == isOrchestrating ~> InputEnabled

----------------------------------------------------------------------------
(* Fleet completion.  The handlers of the code under src/ with one         *)
(* directive and no kill; a response is plain, or holds the completion     *)
(* token in its text or in the body of a file block.  The scheduler and    *)
(* the timers are fair, the planner call returns, and a stepper that is    *)
(* asked again and again answers with the token in the end.                *)

CompletionTexts ==
    {<<Text("words")>>, <<Text(CompletionToken)>>,
     <<File("b.txt", CompletionToken)>>}

\* the completion token anywhere in the raw response
HoldsToken(text) ==
    \E i \in DOMAIN text : text[i].body = CompletionToken

CompletionOutcomes == {Answer(text) : text \in CompletionTexts}

CompletionReturns ==
    \E t \in turns : \E o \in CompletionOutcomes : StepReturn(t, o)

TokenReturns ==
    \E t \in turns : \E o \in CompletionOutcomes :
        HoldsToken(stepAgent(o)) /\ StepReturn(t, o)

FirstDirective == agents = <<>> /\ Directive

InitCompletion == Init /\ stepperDown = {}

NextCompletion ==
    \/ FirstDirective /\ Quiet
    \/ PlanReturns /\ Quiet
    \/ TickSelect /\ Quiet
    \/ TickThink /\ Quiet
    \/ CompletionReturns /\ Quiet
    \/ CooldownExpire /\ Quiet

SpecCompletion == InitCompletion /\ [][NextCompletion]_vars

FairSpecCompletion ==
    /\ SpecCompletion
    /\ Fairness
    /\ SF_vars(TokenReturns /\ Quiet)

----------------------------------------------------------------------------
\* C38 (fleet completion): with no kill and no further directive, steppers
\* that answer with the completion token in the end, and fair ticks and
\* cool-down timers, every spawned worker is eventually Completed.
IsCompleted(id) ==
    InFleet(agents, id) /\ AgentOf(agents, id).status = COMPLETED

C38_FleetCompletion ==
    \A id \in Ids : InFleet(agents, id) ~> IsCompleted(id)

----------------------------------------------------------------------------
(* The command handler.  The handlers of the code under src/ with the      *)
(* global log and the snapshot, and directives that are empty, blank or    *)
(* not.                                                                    *)

Inputs == {"", "  ", "build"}

\* line 271: if (!input.trim()) return
Ignored ==
    /\ InputEnabled
    /\ \A t \in turns : t.pc # "selected"
    /\ emitted' = <<>>
    /\ UNCHANGED <<agents, agentSessions, processingRef, turns, timers,
                   isOrchestrating, planning, remediating, stepperDown,
                   artifacts>>

\* handleCommand without line 271
handleCommandUnguarded(input) == Directive

\* handleCommand, lines 270-287
handleCommand(input) == IF Trim(input) = "" THEN Ignored ELSE Directive

\* the setGlobalLogs updaters of a step and the save-on-change effect of
\* the render after it
Recorded(removes) ==
    /\ clock + Len(emitted') <= LogCeiling
    /\ globalLogs' = AddLogs(globalLogs, emitted', clock)
    /\ clock' = clock + Len(emitted')
    /\ storage' = SaveOnChange(RemoveItem(storage, removes), Changed,
                               agents', artifacts')
    /\ Still

Commands ==
    \E input \in Inputs :
        /\ handleCommand(input)
        /\ Recorded(Trim(input) # "" /\ Len(agents) > 0)

InitCommand == Init /\ stepperDown = {}

NextCommand ==
    \/ Commands
    \/ ShortPlanReturns /\ Recorded(FALSE)
    \/ KillAll /\ Recorded(TRUE)
    \/ TickSelect /\ Recorded(FALSE)
    \/ TickThink /\ Recorded(FALSE)
    \/ StepReturns /\ Recorded(FALSE)
    \/ CooldownExpire /\ Recorded(FALSE)

SpecCommand == InitCommand /\ [][NextCommand]_vars

----------------------------------------------------------------------------
\* C39 (blank directive): a directive that is empty or only white space
\* leaves the workers, the artifacts, the session handles, the global log,
\* the persisted snapshot and the orchestrating flag as they are and makes
\* no planner call.
C39_BlankDirective ==
    [][\A input \in Inputs :
          Trim(input) = "" /\ handleCommand(input)
              => UNCHANGED <<agents, artifacts, agentSessions, globalLogs,
                             storage, isOrchestrating, planning>>]_vars

\* a blank directive has been handled in a session with a fleet, a log and
\* a snapshot
C39_Witness ==
    /\ emitted = <<>>
    /\ Len(agents) > 0
    /\ \A i \in DOMAIN agents : agents[i].status = IDLE
    /\ globalLogs # <<>>
    /\ storage.present
    /\ storage.agents = agents
    /\ ~isOrchestrating
    /\ planning = 0
    /\ turns = {}
    /\ timers = 0
    /\ ~processingRef

====
